---------------------------- MODULE Spec2Model ----------------------------
(***************************************************************************)
(* A model of the 1D diffusion code: the function-based version            *)
(* (diffusion.py) and the time loop of the inline script                   *)
(* (diffusion-model.py).                                                   *)
(*                                                                         *)
(* Numbers are exact rationals <<numerator, denominator>> in lowest terms  *)
(* with a positive denominator.  Every value the modelled runs produce is  *)
(* a dyadic fraction of small height, which binary floating point holds    *)
(* exactly, so exact arithmetic and the program's arithmetic agree on the  *)
(* runs explored here (in particular 100 * (0.5 * 0.5**2 / 100) / 0.5**2   *)
(* evaluates to exactly 0.5).                                              *)
(*                                                                         *)
(* Python sequences are indexed from 0, TLA+ sequences from 1: Python      *)
(* index i is TLA+ index i + 1 throughout.                                 *)
(***************************************************************************)
EXTENDS Integers, Sequences, FiniteSets, TLC

VARIABLES
    \* diffusion_model (diffusion.py)
    pc, plot, domain_size, nt, x, nx, dt, C, t, reported, trace,
    \* one call of solve_1d_diffusion
    args, result,
    \* one call of set_initial_profile
    pargs, profile,
    \* the two time loops side by side
    C0, ldt, Cd, kd, Cm, km

driverVars  == <<pc, plot, domain_size, nt, x, nx, dt, C, t, reported, trace>>
callVars    == <<args, result>>
profileVars == <<pargs, profile>>
loopVars    == <<C0, ldt, Cd, kd, Cm, km>>
vars        == <<driverVars, callVars, profileVars, loopVars>>

---------------------------------------------------------------------------
(* Bounds of the exploration *)

\* domain_size ranges over the quarters -1/4, 0, 1/4, ..., MaxDomainQuarters/4
MaxDomainQuarters == 20
\* n_time_steps ranges over 0..MaxSteps
MaxSteps == 5
\* length of the field handed to a single stepper call
MaxField == 4
\* grid_size handed to set_initial_profile
MaxGrid == 7
\* length of the fields the two loops start from
MaxLoopField == 4
\* iterations each of the two loops runs
MaxLoopSteps == 4

---------------------------------------------------------------------------
(* Exact arithmetic standing for the program's float arithmetic *)

Abs(a) == IF a < 0 THEN -a ELSE a

RECURSIVE Gcd(_, _)
Gcd(a, b) == IF b = 0 THEN a ELSE Gcd(b, a % b)

\* n/d in lowest terms, d # 0
Rat(n, d) ==
    LET s == IF d < 0 THEN -1 ELSE 1
        g == Gcd(Abs(n), Abs(d))
    IN  <<(s * n) \div g, (s * d) \div g>>

RInt(n)    == <<n, 1>>
RAdd(a, b) == Rat(a[1] * b[2] + b[1] * a[2], a[2] * b[2])
RSub(a, b) == Rat(a[1] * b[2] - b[1] * a[2], a[2] * b[2])
RMul(a, b) == Rat(a[1] * b[1], a[2] * b[2])
RDiv(a, b) == Rat(a[1] * b[2], a[2] * b[1])
RLe(a, b)  == a[1] * b[2] <= b[1] * a[2]
RLt(a, b)  == a[1] * b[2] < b[1] * a[2]
RCeil(a)   == -((-a[1]) \div a[2])

Zero == RInt(0)
Half == Rat(1, 2)

\* the content of an np.empty cell before anything is stored in it: no number
Uninit == <<0, 0>>

---------------------------------------------------------------------------
(* The parameters diffusion_model and the script fix *)

\* D = 100
D == 100
\* dx = 0.5
dx == Half
\* C_left = 500
C_left == 500
\* C_right = 0
C_right == 0

---------------------------------------------------------------------------
(* The functions of diffusion.py *)

\* the estimate without its factor 0.5
calculate_time_step_unhalved(grid_spacing, diffusivity) ==
    RDiv(RMul(grid_spacing, grid_spacing), diffusivity)

\* def calculate_time_step(grid_spacing, diffusivity)
calculate_time_step(grid_spacing, diffusivity) ==
    RDiv(RMul(Half, RMul(grid_spacing, grid_spacing)), diffusivity)

\* a[lo:hi] = v, with the Python bounds lo, hi already resolved to 0..len(a)
SliceAssign(a, lo, hi, v) ==
    [i \in 1..Len(a) |-> IF lo <= i - 1 /\ i - 1 < hi THEN v ELSE a[i]]

\* the step placed after the middle element instead of before it
set_initial_profile_ceil(grid_size, boundary_left, boundary_right) ==
    [i \in 1..grid_size |->
        IF i - 1 < (grid_size + 1) \div 2 THEN boundary_left
        ELSE boundary_right]

\* the two halves exchanged
set_initial_profile_swapped(grid_size, boundary_left, boundary_right) ==
    [i \in 1..grid_size |->
        IF i - 1 < grid_size \div 2 THEN boundary_right ELSE boundary_left]

\* def set_initial_profile(grid_size, boundary_left, boundary_right)
set_initial_profile(grid_size, boundary_left, boundary_right) ==
    LET empty  == [i \in 1..grid_size |-> Uninit]
        filled == SliceAssign(empty, 0, grid_size \div 2, boundary_left)
    IN  SliceAssign(filled, grid_size \div 2, grid_size, boundary_right)

\* the length rounded down instead of up
ArangeLenFloor(start, stop, step) ==
    LET q == RDiv(RSub(stop, start), step)
        k == q[1] \div q[2]
    IN  IF k < 0 THEN 0 ELSE k

\* len(np.arange(start, stop, step)), step > 0
ArangeLen(start, stop, step) ==
    LET k == RCeil(RDiv(RSub(stop, start), step))
    IN  IF k < 0 THEN 0 ELSE k

\* def make_grid(origin, domain_size, grid_spacing): the pair (grid, len(grid))
make_grid(origin, size, grid_spacing) ==
    LET n == ArangeLen(origin, RAdd(origin, size), grid_spacing)
    IN  <<[i \in 1..n |-> RAdd(origin, RMul(RInt(i - 1), grid_spacing))], n>>

\* np.roll(a, shift): the element at Python index i moves to (i + shift) mod n
Roll(a, shift) ==
    [i \in 1..Len(a) |-> a[((i - 1 - shift) % Len(a)) + 1]]

\* np.roll(c, -1) - 2*c + np.roll(c, 1)
CenteredDifference(c) ==
    LET fwd == Roll(c, -1)
        bwd == Roll(c, 1)
    IN  [i \in 1..Len(c) |->
            RAdd(RSub(fwd[i], RMul(RInt(2), c[i])), bwd[i])]

\* diffusivity * time_step / grid_spacing**2, grid_spacing # 0
Coefficient(grid_spacing, time_step, diffusivity) ==
    RDiv(RMul(diffusivity, time_step), RMul(grid_spacing, grid_spacing))

\* the same update with every element stored, the boundary cells included
UpdateAll(c, coef) ==
    LET cd == CenteredDifference(c)
    IN  [i \in 1..Len(c) |-> RAdd(c[i], RMul(coef, cd[i]))]

\* a sweep that stores each element before the next one is computed
RECURSIVE Sweep(_, _, _)
Sweep(c, coef, i) ==
    IF i >= Len(c) THEN c
    ELSE Sweep([c EXCEPT ![i] =
                   RAdd(c[i], RMul(coef,
                       RAdd(RSub(c[i + 1], RMul(RInt(2), c[i])), c[i - 1])))],
               coef, i + 1)

UpdateSweep(c, coef) == Sweep(c, coef, 2)

\* the interior update with its results clamped to [C_right, C_left]
UpdateClamped(c, coef) ==
    LET cd == CenteredDifference(c)
        clamp(v) == IF RLt(v, RInt(C_right)) THEN RInt(C_right)
                    ELSE IF RLt(RInt(C_left), v) THEN RInt(C_left) ELSE v
    IN  [i \in 1..Len(c) |->
            IF 1 <= i - 1 /\ i - 1 < Len(c) - 1
            THEN clamp(RAdd(c[i], RMul(coef, cd[i])))
            ELSE c[i]]

\* concentration[1:-1] += coef * centered_difference[1:-1]
UpdateInterior(c, coef) ==
    LET cd == CenteredDifference(c)
    IN  [i \in 1..Len(c) |->
            IF 1 <= i - 1 /\ i - 1 < Len(c) - 1
            THEN RAdd(c[i], RMul(coef, cd[i]))
            ELSE c[i]]

\* how a call of solve_1d_diffusion ends: grid_spacing**2 = 0 makes the
\* division of two Python scalars raise before anything is stored
SolveStatus(c, grid_spacing, time_step, diffusivity) ==
    IF grid_spacing[1] = 0 THEN "ZeroDivisionError" ELSE "returned"

\* def solve_1d_diffusion(concentration, grid_spacing, time_step, diffusivity):
\* the content of concentration when the call ends
solve_1d_diffusion(c, grid_spacing, time_step, diffusivity) ==
    IF grid_spacing[1] = 0 THEN c
    ELSE UpdateInterior(c, Coefficient(grid_spacing, time_step, diffusivity))


---------------------------------------------------------------------------
(* diffusion_model *)

\* a range that runs one index too far
RangeHasNextOffByOne(k, n) == k <= n

\* for t in range(0, nt): whether the range still holds the index k
RangeHasNext(k, n) == k < n

DomainSizes == {Rat(q, 4) : q \in (-1)..MaxDomainQuarters}

DriverIdle ==
    /\ pc = "Idle" /\ plot = FALSE /\ domain_size = Zero /\ nt = 0
    /\ x = <<>> /\ nx = 0 /\ dt = Zero /\ C = <<>> /\ t = 0
    /\ reported = 0 /\ trace = <<>>

\* the call diffusion_model(plot, domain_size, n_time_steps) is entered;
\* the locals x, nx, dt, C and t are not bound yet
DriverInit ==
    /\ pc = "Uninitialized"
    /\ plot \in BOOLEAN
    /\ domain_size \in DomainSizes
    /\ nt \in 0..MaxSteps
    /\ x = <<>> /\ nx = 0 /\ dt = Zero /\ C = <<>> /\ t = 0
    /\ reported = 0 /\ trace = <<>>

\* x, nx = make_grid(0, Lx, dx); dt = calculate_time_step(dx, D);
\* C = set_initial_profile(nx, C_left, C_right)
Initialize ==
    /\ pc = "Uninitialized"
    /\ LET g == make_grid(Zero, domain_size, dx)
       IN  /\ x' = g[1]
           /\ nx' = g[2]
           /\ C' = set_initial_profile(g[2], RInt(C_left), RInt(C_right))
    /\ dt' = calculate_time_step(dx, RInt(D))
    /\ pc' = "Initialized"
    /\ UNCHANGED <<plot, domain_size, nt, t, reported, trace>>
    /\ UNCHANGED <<callVars, profileVars, loopVars>>

\* the initial profile is plotted or printed; the loop is entered
ReportInitial ==
    /\ pc = "Initialized"
    /\ reported' = reported + 1
    /\ t' = 0
    /\ pc' = "Stepping"
    /\ UNCHANGED <<plot, domain_size, nt, x, nx, dt, C, trace>>
    /\ UNCHANGED <<callVars, profileVars, loopVars>>

\* one iteration of the loop: solve_1d_diffusion(C, dx, dt, D), then the
\* print when plot is False
Step ==
    /\ pc = "Stepping"
    /\ RangeHasNext(t, nt)
    /\ SolveStatus(C, dx, dt, RInt(D)) = "returned"
    /\ C' = solve_1d_diffusion(C, dx, dt, RInt(D))
    /\ trace' = Append(trace, [k |-> t, before |-> C, after |-> C'])
    /\ reported' = IF plot THEN reported ELSE reported + 1
    /\ t' = t + 1
    /\ UNCHANGED <<pc, plot, domain_size, nt, x, nx, dt>>
    /\ UNCHANGED <<callVars, profileVars, loopVars>>

\* the range is exhausted: the final profile is plotted when plot is True
Finish ==
    /\ pc = "Stepping"
    /\ ~RangeHasNext(t, nt)
    /\ reported' = IF plot THEN reported + 1 ELSE reported
    /\ pc' = "Finished"
    /\ UNCHANGED <<plot, domain_size, nt, x, nx, dt, C, t, trace>>
    /\ UNCHANGED <<callVars, profileVars, loopVars>>

---------------------------------------------------------------------------
(* One call of solve_1d_diffusion on arbitrary arguments *)

Values == {RInt(0), RInt(200), RInt(500)}

Fields(lo, hi) == UNION {[1..n -> Values] : n \in lo..hi}

Spacings == {RInt(-1), Zero, Half, RInt(1)}
TimeSteps == {RInt(-1), Zero, Rat(1, 800), RInt(1)}
Diffusivities == {RInt(1), RInt(100)}

CallIdle ==
    /\ args = [concentration |-> <<>>, grid_spacing |-> Zero,
               time_step |-> Zero, diffusivity |-> Zero]
    /\ result = [status |-> "idle", concentration |-> <<>>]

CallInit ==
    /\ args \in [concentration : Fields(0, MaxField), grid_spacing : Spacings,
                 time_step : TimeSteps, diffusivity : Diffusivities]
    /\ result = [status |-> "pending", concentration |-> args.concentration]

\* solve_1d_diffusion(concentration, grid_spacing, time_step, diffusivity)
\* runs to its end
Call ==
    /\ result.status = "pending"
    /\ result' =
         [status |-> SolveStatus(args.concentration, args.grid_spacing,
                                 args.time_step, args.diffusivity),
          concentration |-> solve_1d_diffusion(args.concentration,
                                 args.grid_spacing, args.time_step,
                                 args.diffusivity)]
    /\ UNCHANGED args
    /\ UNCHANGED <<driverVars, profileVars, loopVars>>

---------------------------------------------------------------------------
(* One call of set_initial_profile on arbitrary arguments *)

ProfileIdle ==
    /\ pargs = [grid_size |-> 0, boundary_left |-> Zero, boundary_right |-> Zero]
    /\ profile = [status |-> "idle", value |-> <<>>]

ProfileInit ==
    /\ pargs \in [grid_size : 0..MaxGrid, boundary_left : Values,
                  boundary_right : Values]
    /\ profile = [status |-> "pending", value |-> <<>>]

\* set_initial_profile(grid_size, boundary_left, boundary_right) returns
MakeProfile ==
    /\ profile.status = "pending"
    /\ profile' = [status |-> "returned",
                   value |-> set_initial_profile(pargs.grid_size,
                                 pargs.boundary_left, pargs.boundary_right)]
    /\ UNCHANGED pargs
    /\ UNCHANGED <<driverVars, callVars, loopVars>>

---------------------------------------------------------------------------
(* The loop of the script and the loop of diffusion_model, side by side *)

\* the script's step without C[-1] = C_right
MonolithicStepNoRight(c, time_step) ==
    LET coef == Coefficient(dx, time_step, RInt(D))
        cd   == CenteredDifference(c)
        all  == [i \in 1..Len(c) |-> RAdd(c[i], RMul(coef, cd[i]))]
    IN  [all EXCEPT ![1] = RInt(C_left)]

\* C += D * dt / dx**2 * (np.roll(C, -1) - 2*C + np.roll(C, 1));
\* C[0] = C_left; C[-1] = C_right      (the field is not empty)
MonolithicStep(c, time_step) ==
    LET coef == Coefficient(dx, time_step, RInt(D))
        cd   == CenteredDifference(c)
        all  == [i \in 1..Len(c) |-> RAdd(c[i], RMul(coef, cd[i]))]
        left == [all EXCEPT ![1] = RInt(C_left)]
    IN  [left EXCEPT ![Len(c)] = RInt(C_right)]

\* the body of the loop of diffusion_model
DecomposedStep(c, time_step) ==
    solve_1d_diffusion(c, dx, time_step, RInt(D))

\* the estimator's time step, and twice it (dx**2 / D)
LoopTimeSteps ==
    {calculate_time_step(dx, RInt(D)),
     RMul(RInt(2), calculate_time_step(dx, RInt(D)))}

LoopIdle ==
    /\ C0 = <<>> /\ ldt = Zero /\ Cd = <<>> /\ kd = 0 /\ Cm = <<>> /\ km = 0

LoopInit ==
    /\ C0 \in Fields(3, MaxLoopField)
    /\ ldt \in LoopTimeSteps
    /\ Cd = C0 /\ kd = 0
    /\ Cm = C0 /\ km = 0

StepDecomposed ==
    /\ Len(C0) > 0
    /\ kd < MaxLoopSteps
    /\ Cd' = DecomposedStep(Cd, ldt)
    /\ kd' = kd + 1
    /\ UNCHANGED <<C0, ldt, Cm, km>>
    /\ UNCHANGED <<driverVars, callVars, profileVars>>

StepMonolithic ==
    /\ Len(C0) > 0
    /\ km < MaxLoopSteps
    /\ Cm' = MonolithicStep(Cm, ldt)
    /\ km' = km + 1
    /\ UNCHANGED <<C0, ldt, Cd, kd>>
    /\ UNCHANGED <<driverVars, callVars, profileVars>>

---------------------------------------------------------------------------
(* Specifications *)

Init == DriverInit /\ CallIdle /\ ProfileIdle /\ LoopIdle
Next == Initialize \/ ReportInitial \/ Step \/ Finish
Spec == Init /\ [][Next]_vars

\* A step of the control state alone.  Every step of Next changes <<pc, t>>
\* and is a step of Advance, and Advance can change <<pc, t>> exactly in the
\* states where some action of Next is enabled (every state but Finished).
Advance ==
    /\ pc \in {"Uninitialized", "Initialized", "Stepping"}
    /\ pc' \in {"Initialized", "Stepping", "Finished"}
    /\ t' \in {t, t + 1}

\* The interpreter runs a started call to its end: weak fairness of Next,
\* stated on the control state so that enabledness is decided without
\* computing the next field.
LiveSpec == Spec /\ WF_<<pc, t>>(Advance)

StepperInit == DriverIdle /\ CallInit /\ ProfileIdle /\ LoopIdle
StepperNext == Call
StepperSpec == StepperInit /\ [][StepperNext]_vars

ProfileSpecInit == DriverIdle /\ CallIdle /\ ProfileInit /\ LoopIdle
ProfileNext == MakeProfile
ProfileSpec == ProfileSpecInit /\ [][ProfileNext]_vars

LoopSpecInit == DriverIdle /\ CallIdle /\ ProfileIdle /\ LoopInit
LoopNext == StepDecomposed \/ StepMonolithic
LoopSpec == LoopSpecInit /\ [][LoopNext]_vars

---------------------------------------------------------------------------
(* Properties of one call of solve_1d_diffusion (StepperSpec) *)

CallEnded == result.status # "pending" /\ result.status # "idle"

CallValid ==
    /\ Len(args.concentration) >= 3
    /\ RLt(Zero, args.grid_spacing)

\* C1: a call on a field of length >= 3 with grid_spacing > 0 leaves the
\* first and the last element, and the length, as they were; only the
\* interior elements may differ afterwards.
C1_BoundaryUntouched ==
    (CallEnded /\ CallValid) =>
        LET old == args.concentration
            new == result.concentration
        IN  /\ Len(new) = Len(old)
            /\ new[1] = old[1]
            /\ new[Len(old)] = old[Len(old)]

\* a valid call that did change the field
C1_Witness ==
    /\ CallEnded /\ CallValid
    /\ result.concentration # args.concentration

\* C2: a call that returns on a field of length n >= 3 leaves at every
\* interior index i the value old[i] + D*dt/dx^2 * (old[i+1] - 2*old[i] +
\* old[i-1]), all of old taken from the field as it was before the call.
C2_InteriorFromSnapshot ==
    (result.status = "returned" /\ Len(args.concentration) >= 3) =>
        LET old == args.concentration
            new == result.concentration
            r   == RDiv(RMul(args.diffusivity, args.time_step),
                        RMul(args.grid_spacing, args.grid_spacing))
        IN  \A i \in 2..(Len(old) - 1) :
                new[i] = RAdd(old[i],
                              RMul(r, RSub(RAdd(old[i + 1], old[i - 1]),
                                           RMul(RInt(2), old[i]))))

\* two adjacent interior elements both changed: the second one had a
\* neighbour that the same call had a new value for
C2_Witness ==
    /\ result.status = "returned"
    /\ Len(args.concentration) >= 4
    /\ result.concentration[2] # args.concentration[2]
    /\ result.concentration[3] # args.concentration[3]

\* C4: a call with a field of fewer than 3 elements, or with
\* grid_spacing <= 0, ends in InvalidParameter with the field unchanged.
C4_InvalidParameter ==
    (CallEnded /\ ~CallValid) =>
        /\ result.status = "InvalidParameter"
        /\ result.concentration = args.concentration

---------------------------------------------------------------------------
(* Properties of set_initial_profile (ProfileSpec) *)

\* C5: for grid_size n >= 0 the result has exactly n elements, boundary_left
\* at the Python indices [0, n div 2) and boundary_right at [n div 2, n);
\* n = 0 gives the empty sequence and n = 1 the single value boundary_right.
C5_StepProfile ==
    profile.status = "returned" =>
        LET n == pargs.grid_size
            v == profile.value
        IN  /\ Len(v) = n
            /\ \A i \in 0..(n - 1) :
                   v[i + 1] = IF i < n \div 2 THEN pargs.boundary_left
                              ELSE pargs.boundary_right
            /\ n = 0 => v = <<>>
            /\ n = 1 => v = <<pargs.boundary_right>>

\* an odd grid_size with two different boundary values
C5_Witness ==
    /\ profile.status = "returned"
    /\ pargs.grid_size = 1
    /\ pargs.boundary_left # pargs.boundary_right

---------------------------------------------------------------------------
(* Properties of diffusion_model (Spec, LiveSpec) *)

HasField == pc \in {"Initialized", "Stepping", "Finished"}

\* k = ceil(q), said without RCeil
IsCeil(k, q) == RLe(q, RInt(k)) /\ RLt(RInt(k - 1), q)

FieldShape ==
    /\ IsCeil(Len(C), RDiv(domain_size, Half))
    /\ C[1] = RInt(C_left)
    /\ C[Len(C)] = RInt(C_right)
    /\ domain_size = RInt(5) => (Len(C) = 10 /\ C[1] = RInt(500) /\ C[10] = RInt(0))

\* C3 as claimed: for every domain_size > 0 the field has
\* ceil(domain_size / 0.5) elements, the first C_left and the last C_right,
\* in the initial state and after every time step.
C3_PinnedForEveryDomain ==
    (HasField /\ RLt(Zero, domain_size)) => FieldShape

\* C3, amended: the same for every domain_size > 0.5, that is for every
\* field of at least two elements.
C3_PinnedFromTwoPoints ==
    (HasField /\ RLt(Half, domain_size)) => FieldShape

\* the run diffusion_model(domain_size=5, n_time_steps=5) finished
C3_Witness ==
    /\ pc = "Finished"
    /\ domain_size = RInt(5)
    /\ nt = 5
    /\ Len(trace) = 5
    /\ C # trace[1].before

\* C6: with the time step of calculate_time_step every element of the field
\* lies in [min(C_left, C_right), max(C_left, C_right)] = [0, 500], in the
\* initial state and after every time step.
C6_WithinBounds ==
    HasField =>
        \A i \in 1..Len(C) :
            /\ RLe(RInt(0), C[i]) /\ RLe(C[i], RInt(500))
            /\ RLe(RInt(IF C_left < C_right THEN C_left ELSE C_right), C[i])
            /\ RLe(C[i], RInt(IF C_left < C_right THEN C_right ELSE C_left))

\* after three steps some element lies strictly inside the interval
C6_Witness ==
    /\ HasField
    /\ Len(trace) >= 3
    /\ dt = Rat(1, 800)
    /\ \E i \in 1..Len(C) : RLt(RInt(0), C[i]) /\ RLt(C[i], RInt(500))

\* C10: the field is non-increasing from left to right in the initial state
\* and after every time step.
C10_NonIncreasing ==
    HasField => \A i \in 1..(Len(C) - 1) : RLe(C[i + 1], C[i])

\* after three steps the field has at least three different levels
C10_Witness ==
    /\ HasField
    /\ Len(trace) >= 3
    /\ \E i \in 1..(Len(C) - 2) : RLt(C[i + 1], C[i]) /\ RLt(C[i + 2], C[i + 1])

\* the states in the order the run goes through them
C7_Order ==
    [][ /\ pc = "Uninitialized" =>
             (pc' = "Initialized" /\ trace' = <<>>)
        /\ pc = "Initialized" =>
             (pc' = "Stepping" /\ t' = 0 /\ trace' = <<>> /\ C' = C)
        /\ (pc = "Stepping" /\ t < nt) =>
             /\ pc' = "Stepping" /\ t' = t + 1
             /\ trace' = Append(trace, [k |-> t, before |-> C, after |-> C'])
             /\ C' = solve_1d_diffusion(C, dx, dt, RInt(D))
        /\ (pc = "Stepping" /\ t >= nt) =>
             (pc' = "Finished" /\ t = nt /\ C' = C /\ trace' = trace)
        /\ pc # "Finished"
        /\ pc # "Uninitialized" => (x' = x /\ nx' = nx /\ dt' = dt)
        /\ nt' = nt
      ]_vars

\* at the end the stepper has been invoked exactly nt times, with the
\* indices 0, 1, ..., nt-1 in this order, each call on the field the previous
\* one left
C7_Calls ==
    [](pc = "Finished" =>
          /\ Len(trace) = nt
          /\ \A j \in 1..Len(trace) : trace[j].k = j - 1
          /\ \A j \in 1..(Len(trace) - 1) : trace[j + 1].before = trace[j].after
          /\ nt > 0 =>
               /\ trace[1].before =
                      set_initial_profile(nx, RInt(C_left), RInt(C_right))
               /\ trace[nt].after = C)

\* C7: a run goes through Uninitialized, Initialized, Stepping(0), ...,
\* Stepping(nt-1), Finished in this order; the grid, the time step and the
\* initial field are built once before any step; solve_1d_diffusion is
\* invoked exactly nt times, with k = 0, ..., nt-1, each call on the field
\* the previous one left; and the run always reaches Finished.
C7_StateMachine ==
    C7_Order /\ C7_Calls /\ <>(pc = "Finished")

\* a run of at least three steps finished
C7_Witness ==
    /\ pc = "Finished"
    /\ nt >= 3
    /\ Len(trace) = nt
    /\ trace[3].before # trace[3].after

---------------------------------------------------------------------------
(* Properties of the two loops (LoopSpec) *)

StepFunctionStart ==
    C0 = set_initial_profile(Len(C0), RInt(C_left), RInt(C_right))

Doubled == ldt = RDiv(RMul(dx, dx), RInt(D))

OutOfRange(v) == RLt(v, RInt(C_right)) \/ RLt(RInt(C_left), v)

\* C8: the stepper applied repeatedly to the step-function field of four or
\* more elements with the time step dx^2/D has, from its second application
\* on, some element outside [C_right, C_left]; the call raises nothing and
\* the value is stored as computed.
C8_DoubledStepLeavesRange ==
    (StepFunctionStart /\ Doubled /\ Len(C0) >= 4 /\ kd >= 2) =>
        /\ \E i \in 1..Len(Cd) : OutOfRange(Cd[i])
        /\ SolveStatus(Cd, dx, ldt, RInt(D)) = "returned"
        /\ Coefficient(dx, ldt, RInt(D)) = RInt(1)

\* the second application of the doubled step has run on the step function
C8_Witness ==
    /\ StepFunctionStart /\ Doubled /\ Len(C0) >= 4 /\ kd = 2
    /\ \E i \in 1..Len(Cd) : RLt(RInt(C_left), Cd[i])

Pinned(c) == c[1] = RInt(C_left) /\ c[Len(c)] = RInt(C_right)

\* C9: started from the same field of length >= 3 whose first element is
\* C_left and whose last is C_right, the script's loop and the loop of
\* diffusion_model hold equal fields after equally many steps.
C9_LoopsAgree ==
    (Len(C0) >= 3 /\ Pinned(C0) /\ kd = km) => Cd = Cm

\* both loops have run twice from a pinned field and moved it
C9_Witness ==
    /\ Len(C0) >= 3 /\ Pinned(C0)
    /\ kd = 2 /\ km = 2
    /\ Cd # C0 /\ Cm = Cd

=============================================================================
